---- MODULE Spec2Model ----
(***************************************************************************)
(* Day-2/main.go: the file-reading subsystem (ReadFileContent,             *)
(* ReadFileContentSimple, ReadFileContentIoutil and StreamFileLines, run   *)
(* by one or several workers against a filesystem entry), the HTTP server  *)
(* with its four routes and its logging middleware, and the commands of    *)
(* main.                                                                   *)
(*                                                                         *)
(* A file is a sequence of symbols.  "a" is an ordinary byte, "\r" and     *)
(* "\n" are themselves, and "X" is a run of MaxScanTokenSize ordinary      *)
(* bytes (a line too long for bufio.Scanner's default buffer).             *)
(* A path is a sequence of characters.  The filesystem holds one entry,    *)
(* named by every non-empty path of Paths and by sample.txt, and the       *)
(* working directory with its large_test.txt.                              *)
(***************************************************************************)
EXTENDS Integers, Sequences, FiniteSets, TLC

\* Longest file, in symbols, of the single-worker specification.
MaxLen == 4

\* bufio.MaxScanTokenSize, the buffer limit of bufio.NewScanner.
MaxScanTokenSize == 64 * 1024

Workers == {"w1", "w2"}

Fds == 1..Cardinality(Workers)

Byte == {"a", "\r", "\n", "X"}

\* "", the blank path of the test table, and an ordinary name.
Paths == {<< >>, <<" ", " ", " ">>, <<"s">>}

\* fs: the entry; call: the file-reading call of each worker; openFiles:
\* the descriptor table; prog: main; cwd: the working directory apart from
\* the entry; conn: the request each worker serves and its response; logs:
\* the lines written by log.Printf.
VARIABLES fs, call, openFiles, prog, cwd, conn, logs

vars == <<fs, call, openFiles, prog, cwd, conn, logs>>

----------------------------------------------------------------------------
(* Bytes and strings *)

Weight(b) == IF b = "X" THEN MaxScanTokenSize ELSE 1

RECURSIVE ByteLen(_)
\* len(s) in bytes
ByteLen(s) == IF s = << >> THEN 0 ELSE Weight(Head(s)) + ByteLen(Tail(s))

\* bytes.IndexByte, 1-based; 0 when c does not occur
IndexByte(s, c) ==
  IF \E i \in 1..Len(s) : s[i] = c
  THEN CHOOSE i \in 1..Len(s) : s[i] = c /\ \A j \in 1..(i - 1) : s[j] # c
  ELSE 0

IsSpace(c) == c \in {" ", "\t", "\n", "\r"}

RECURSIVE TrimLeft(_)
TrimLeft(s) == IF s # << >> /\ IsSpace(Head(s)) THEN TrimLeft(Tail(s)) ELSE s

RECURSIVE TrimRight(_)
TrimRight(s) ==
  IF s # << >> /\ IsSpace(s[Len(s)]) THEN TrimRight(SubSeq(s, 1, Len(s) - 1)) ELSE s

\* strings.TrimSpace
TrimSpace(s) == TrimRight(TrimLeft(s))

----------------------------------------------------------------------------
(* Errors *)

NoError == [kind |-> "nil", cause |-> "nil", line |-> 0]

\* fmt.Errorf(kind) without %w
PlainError(kind) == [kind |-> kind, cause |-> "nil", line |-> 0]

\* fmt.Errorf(kind + ": %w", cause)
WrapError(kind, cause) == [kind |-> kind, cause |-> cause, line |-> 0]

----------------------------------------------------------------------------
(* The filesystem entry and the system calls on it *)

NoEntry == [kind |-> "none", access |-> "ok", data |-> << >>, fault |-> "none", faultAt |-> 0]

\* access: "ok"; "noread" (stat permitted, open refused); "nosearch" (a
\* directory of the path cannot be searched: stat and open refused).
Access == {"ok", "noread", "nosearch"}

DirEntries ==
  {[kind |-> "dir", access |-> a, data |-> << >>, fault |-> "none", faultAt |-> 0] : a \in Access}

\* fault: "none"; "stat" (stat and fstat fail with EIO); "read" (reads fail
\* with EIO once faultAt symbols have been delivered).
FileEntries(contents) ==
  {[kind |-> "file", access |-> a, data |-> d, fault |-> "none", faultAt |-> 0] :
      a \in Access, d \in contents}
  \cup {[kind |-> "file", access |-> "ok", data |-> d, fault |-> "stat", faultAt |-> 0] :
      d \in contents}
  \cup UNION {{[kind |-> "file", access |-> "ok", data |-> d, fault |-> "read", faultAt |-> k] :
      k \in 0..Len(d)} : d \in contents}

Entries(contents) == {NoEntry} \cup DirEntries \cup FileEntries(contents)

\* os.Stat(path): the error, "nil" when the FileInfo is returned
StatErr(e) ==
  IF e.kind = "none" THEN "ENOENT"
  ELSE IF e.access = "nosearch" THEN "EACCES"
  ELSE IF e.fault = "stat" THEN "EIO"
  ELSE "nil"

\* os.Open(path): the error, "nil" when a handle is returned
OpenErr(e) ==
  IF e.kind = "none" THEN "ENOENT"
  ELSE IF e.access # "ok" THEN "EACCES"
  ELSE "nil"

\* file.Stat() on an open handle
FstatErr(e) == IF e.fault = "stat" THEN "EIO" ELSE "nil"

\* os.IsNotExist / os.IsPermission on the error of a system call
IsNotExist(errno) == errno = "ENOENT"

IsPermission(errno) == errno = "EACCES"

IsDir(e) == e.kind = "dir"

\* FileInfo.Size()
Size(e) == ByteLen(e.data)

\* The symbols a handle can deliver before end of file or the read fault.
Limit(e) == IF e.fault = "read" THEN e.faultAt ELSE Len(e.data)

\* file.Read at offset off: everything up to Limit(e), then io.EOF or EIO;
\* EISDIR on a directory.  One Read stands for the run of read calls that
\* deliver these bytes.
Read(e, off) ==
  IF e.kind = "dir" THEN [bytes |-> << >>, err |-> "EISDIR"]
  ELSE IF off < Limit(e) THEN [bytes |-> SubSeq(e.data, off + 1, Limit(e)), err |-> "nil"]
  ELSE IF e.fault = "read" THEN [bytes |-> << >>, err |-> "EIO"]
  ELSE [bytes |-> << >>, err |-> "EOF"]

----------------------------------------------------------------------------
(* bufio.Scanner with the default split function, as the loops of           *)
(* ReadFileContent and StreamFileLines use it                               *)

\* dropCR: one trailing "\r" is dropped
dropCR(data) ==
  IF data # << >> /\ data[Len(data)] = "\r" THEN SubSeq(data, 1, Len(data) - 1) ELSE data

\* bufio.ScanLines(data, atEOF): has = FALSE is the nil token
ScanLines(data, atEOF) ==
  LET i == IndexByte(data, "\n") IN
  IF atEOF /\ data = << >> THEN [advance |-> 0, token |-> << >>, has |-> FALSE]
  ELSE IF i > 0 THEN [advance |-> i, token |-> dropCR(SubSeq(data, 1, i - 1)), has |-> TRUE]
  ELSE IF atEOF THEN [advance |-> Len(data), token |-> dropCR(data), has |-> TRUE]
  ELSE [advance |-> 0, token |-> << >>, has |-> FALSE]

RECURSIVE Visible(_)
\* The part of the unconsumed input that fits the scanner's buffer, which
\* never grows beyond MaxScanTokenSize bytes: whole symbols only (the cut
\* part of an "X" holds no line end).
Visible(buf) ==
  IF buf = << >> \/ ByteLen(buf) <= MaxScanTokenSize THEN buf
  ELSE Visible(SubSeq(buf, 1, Len(buf) - 1))

\* The buffer is full at its largest size: Scan gives up with ErrTooLong.
BufferFull(buf) == ByteLen(buf) >= MaxScanTokenSize

RECURSIVE ScanLoop(_, _)
\* Scanner.Scan: s = [buf, off, err, reads] is the scanner (buf: input read
\* and not yet consumed; err: "nil" or the sticky read error) with the
\* offset of its handle and the reads it has issued in this call.
ScanLoop(e, s) ==
  LET r == ScanLines(Visible(s.buf), s.err # "nil") IN
  IF (s.buf # << >> \/ s.err # "nil") /\ r.has
  THEN [ok |-> TRUE, token |-> r.token,
        s |-> [s EXCEPT !.buf = SubSeq(s.buf, r.advance + 1, Len(s.buf))]]
  ELSE IF s.err # "nil"
  THEN [ok |-> FALSE, token |-> << >>, s |-> [s EXCEPT !.buf = << >>]]
  ELSE IF BufferFull(s.buf)
  THEN [ok |-> FALSE, token |-> << >>, s |-> [s EXCEPT !.err = "ErrTooLong"]]
  ELSE LET rd == Read(e, s.off) IN
       ScanLoop(e, [buf |-> s.buf \o rd.bytes, off |-> s.off + Len(rd.bytes),
                    err |-> rd.err, reads |-> s.reads + 1])

\* Scanner.Err: io.EOF is not an error
ScannerErr(serr) == IF serr = "EOF" THEN "nil" ELSE serr

\* io.ReadAll(file) and the read loop of os.ReadFile: the data read and
\* the error ("nil" at end of file)
ReadAll(e, off) ==
  LET first == Read(e, off)
      last == IF first.err = "nil" THEN Read(e, off + Len(first.bytes)) ELSE first
  IN [bytes |-> first.bytes,
      err |-> IF last.err = "EOF" THEN "nil" ELSE last.err,
      reads |-> IF first.err = "nil" THEN 2 ELSE 1]

Reads(n) == [i \in 1..n |-> "read"]

----------------------------------------------------------------------------
(* One call of a worker *)

\* pc "off": a worker the specification does not run.
NewCall(pc) ==
  [pc |-> pc, fn |-> "none", path |-> << >>, failAt |-> 0,
   file |-> 0, deferClose |-> FALSE, size |-> 0,
   buf |-> << >>, serr |-> "nil",
   content |-> << >>, lineCount |-> 0, lineNumber |-> 0,
   delivered |-> << >>, ops |-> << >>,
   ret |-> [content |-> << >>, err |-> NoError]]

\* return content, err: the deferred call, if any, is still to run
Ret(c, content, err) ==
  [c EXCEPT !.pc = "return", !.ret = [content |-> content, err |-> err]]

ClosedFile == [owner |-> "none", off |-> 0]

\* The descriptor os.Open returns: the lowest one not in use.
FreeFd == CHOOSE fd \in Fds : openFiles[fd] = ClosedFile
                              /\ \A g \in Fds : g < fd => openFiles[g] # ClosedFile

\* The scanner of call c over its handle.
ScannerOf(c) == [buf |-> c.buf, off |-> openFiles[c.file].off, err |-> c.serr, reads |-> 0]

----------------------------------------------------------------------------
(* ReadFileContent *)

\* filePath == "" is the whole validation: the path is not trimmed
RFC_Begin(w, path) ==
  /\ call[w].pc = "idle"
  /\ LET c == [call[w] EXCEPT !.fn = "ReadFileContent", !.path = path] IN
     call' = [call EXCEPT ![w] =
                IF path = << >>
                THEN Ret(c, << >>, PlainError("file path cannot be empty"))
                ELSE [c EXCEPT !.pc = "rfc_open"]]
  /\ UNCHANGED <<fs, openFiles, prog, cwd, conn, logs>>

\* file, err := os.Open(filePath), and the deferred file.Close()
RFC_Open(w) ==
  /\ call[w].pc = "rfc_open"
  /\ LET c == [call[w] EXCEPT !.ops = Append(@, "open")]
         errno == OpenErr(fs)
         fd == FreeFd
     IN IF errno # "nil"
        THEN /\ call' = [call EXCEPT ![w] =
                           Ret(c, << >>, WrapError("failed to open file", errno))]
             /\ UNCHANGED openFiles
        ELSE /\ call' = [call EXCEPT ![w] =
                           [c EXCEPT !.file = fd, !.deferClose = TRUE, !.pc = "rfc_stat"]]
             /\ openFiles' = [openFiles EXCEPT ![fd] = [owner |-> w, off |-> 0]]
  /\ UNCHANGED <<fs, prog, cwd, conn, logs>>

\* RFC_Stat without the fileInfo.IsDir() check
RFC_Stat_NoDirCheck(w) ==
  /\ call[w].pc = "rfc_stat"
  /\ LET c == [call[w] EXCEPT !.ops = Append(@, "fstat")]
         errno == FstatErr(fs)
     IN call' = [call EXCEPT ![w] =
                   IF errno # "nil"
                   THEN Ret(c, << >>, WrapError("failed to get file info", errno))
                   ELSE [c EXCEPT !.pc = "rfc_scan"]]
  /\ UNCHANGED <<fs, openFiles, prog, cwd, conn, logs>>

\* fileInfo, err := file.Stat(), then fileInfo.IsDir()
RFC_Stat(w) ==
  /\ call[w].pc = "rfc_stat"
  /\ LET c == [call[w] EXCEPT !.ops = Append(@, "fstat")]
         errno == FstatErr(fs)
     IN call' = [call EXCEPT ![w] =
                   IF errno # "nil"
                   THEN Ret(c, << >>, WrapError("failed to get file info", errno))
                   ELSE IF IsDir(fs)
                   THEN Ret(c, << >>, PlainError("is a directory, not a file"))
                   ELSE [c EXCEPT !.pc = "rfc_scan"]]
  /\ UNCHANGED <<fs, openFiles, prog, cwd, conn, logs>>

\* Accumulate without the "\n" put back between lines
Accumulate_NoSeparator(content, lineCount, line) == content \o line

\* Accumulate ending every line with "\n" in place of separating the lines
Accumulate_NewlineAfterEach(content, lineCount, line) == content \o line \o <<"\n">>

\* The body of the loop: the first line as it is, every later line after "\n"
Accumulate(content, lineCount, line) ==
  IF lineCount = 1 THEN line ELSE content \o <<"\n">> \o line

\* RFC_Result testing the scanner's raw error: end of file taken for a failure
RFC_Result_EOFIsError(content, serr) ==
  IF serr # "nil"
  THEN [content |-> << >>, err |-> WrapError("error reading file", serr)]
  ELSE [content |-> content, err |-> NoError]

\* RFC_Result returning the lines accumulated so far together with the error
RFC_Result_KeepsPartial(content, serr) ==
  IF ScannerErr(serr) # "nil"
  THEN [content |-> content, err |-> WrapError("error reading file", ScannerErr(serr))]
  ELSE [content |-> content, err |-> NoError]

\* After the loop: scanner.Err() decides between "", err and content, nil
RFC_Result(content, serr) ==
  IF ScannerErr(serr) # "nil"
  THEN [content |-> << >>, err |-> WrapError("error reading file", ScannerErr(serr))]
  ELSE [content |-> content, err |-> NoError]

\* One scanner.Scan() of the loop, with the loop body or, when Scan returns
\* false, the statements after the loop
RFC_Scan(w) ==
  /\ call[w].pc = "rfc_scan"
  /\ LET c == call[w]
         r == ScanLoop(fs, ScannerOf(c))
         d == [c EXCEPT !.buf = r.s.buf, !.serr = r.s.err,
                        !.ops = @ \o Reads(r.s.reads)]
         res == RFC_Result(c.content, r.s.err)
     IN /\ call' = [call EXCEPT ![w] =
                      IF r.ok
                      THEN [d EXCEPT !.lineCount = c.lineCount + 1,
                                     !.content = Accumulate(c.content, c.lineCount + 1, r.token)]
                      ELSE Ret(d, res.content, res.err)]
        /\ openFiles' = [openFiles EXCEPT ![c.file].off = r.s.off]
  /\ UNCHANGED <<fs, prog, cwd, conn, logs>>

----------------------------------------------------------------------------
(* ReadFileContentSimple *)

Simple_Begin(w, path) ==
  /\ call[w].pc = "idle"
  /\ LET c == [call[w] EXCEPT !.fn = "ReadFileContentSimple", !.path = path] IN
     call' = [call EXCEPT ![w] =
                IF path = << >>
                THEN Ret(c, << >>, PlainError("file path cannot be empty"))
                ELSE [c EXCEPT !.pc = "simple_read"]]
  /\ UNCHANGED <<fs, openFiles, prog, cwd, conn, logs>>

\* data, err := os.ReadFile(filePath): open, read to the end, close, all
\* inside the library call; the data is dropped on an error
Simple_ReadFile(w) ==
  /\ call[w].pc = "simple_read"
  /\ LET c == call[w]
         errno == OpenErr(fs)
         rd == ReadAll(fs, 0)
     IN call' = [call EXCEPT ![w] =
                   IF errno # "nil"
                   THEN Ret([c EXCEPT !.ops = @ \o <<"open">>], << >>,
                            WrapError("failed to read file", errno))
                   ELSE IF rd.err # "nil"
                   THEN Ret([c EXCEPT !.ops = @ \o <<"open">> \o Reads(rd.reads) \o <<"close">>],
                            << >>, WrapError("failed to read file", rd.err))
                   ELSE Ret([c EXCEPT !.ops = @ \o <<"open">> \o Reads(rd.reads) \o <<"close">>],
                            rd.bytes, NoError)]
  /\ UNCHANGED <<fs, openFiles, prog, cwd, conn, logs>>

----------------------------------------------------------------------------
(* ReadFileContentIoutil *)

Ioutil_Begin(w, path) ==
  /\ call[w].pc = "idle"
  /\ LET c == [call[w] EXCEPT !.fn = "ReadFileContentIoutil", !.path = path] IN
     call' = [call EXCEPT ![w] =
                IF TrimSpace(path) = << >>
                THEN Ret(c, << >>, PlainError("file path cannot be empty"))
                ELSE [c EXCEPT !.pc = "ioutil_stat"]]
  /\ UNCHANGED <<fs, openFiles, prog, cwd, conn, logs>>

\* StatFailure without the os.IsNotExist branch
StatFailure_AlwaysWrapped(errno) == WrapError("failed to access file info", errno)

\* The error returned when os.Stat fails
StatFailure(errno) ==
  IF IsNotExist(errno) THEN PlainError("file does not exist")
  ELSE WrapError("failed to access file info", errno)

\* OpenFailure without the os.IsPermission branch
OpenFailure_AlwaysWrapped(errno) == WrapError("failed to open file", errno)

\* The error returned when os.Open fails after a successful os.Stat
OpenFailure(errno) ==
  IF IsPermission(errno) THEN PlainError("permission denied: cannot read file")
  ELSE WrapError("failed to open file", errno)

\* Ioutil_Stat without the fileInfo.Size() == 0 return
Ioutil_Stat_NoSizeCheck(w) ==
  /\ call[w].pc = "ioutil_stat"
  /\ LET c == [call[w] EXCEPT !.ops = Append(@, "stat")]
         errno == StatErr(fs)
     IN call' = [call EXCEPT ![w] =
                   IF errno # "nil" THEN Ret(c, << >>, StatFailure(errno))
                   ELSE IF IsDir(fs) THEN Ret(c, << >>, PlainError("path is a directory, not a file"))
                   ELSE [c EXCEPT !.size = Size(fs), !.pc = "ioutil_open"]]
  /\ UNCHANGED <<fs, openFiles, prog, cwd, conn, logs>>

\* fileInfo, err := os.Stat(filePath), IsDir() and Size() == 0
Ioutil_Stat(w) ==
  /\ call[w].pc = "ioutil_stat"
  /\ LET c == [call[w] EXCEPT !.ops = Append(@, "stat")]
         errno == StatErr(fs)
     IN call' = [call EXCEPT ![w] =
                   IF errno # "nil" THEN Ret(c, << >>, StatFailure(errno))
                   ELSE IF IsDir(fs) THEN Ret(c, << >>, PlainError("path is a directory, not a file"))
                   ELSE IF Size(fs) = 0 THEN Ret(c, << >>, NoError)
                   ELSE [c EXCEPT !.size = Size(fs), !.pc = "ioutil_open"]]
  /\ UNCHANGED <<fs, openFiles, prog, cwd, conn, logs>>

\* file, err := os.Open(filePath), and defer file.Close()
Ioutil_Open(w) ==
  /\ call[w].pc = "ioutil_open"
  /\ LET c == [call[w] EXCEPT !.ops = Append(@, "open")]
         errno == OpenErr(fs)
         fd == FreeFd
     IN IF errno # "nil"
        THEN /\ call' = [call EXCEPT ![w] = Ret(c, << >>, OpenFailure(errno))]
             /\ UNCHANGED openFiles
        ELSE /\ call' = [call EXCEPT ![w] =
                           [c EXCEPT !.file = fd, !.deferClose = TRUE, !.pc = "ioutil_read"]]
             /\ openFiles' = [openFiles EXCEPT ![fd] = [owner |-> w, off |-> 0]]
  /\ UNCHANGED <<fs, prog, cwd, conn, logs>>

\* content, err := io.ReadAll(file)
Ioutil_ReadAll(w) ==
  /\ call[w].pc = "ioutil_read"
  /\ LET c == call[w]
         rd == ReadAll(fs, openFiles[c.file].off)
         d == [c EXCEPT !.ops = @ \o Reads(rd.reads)]
     IN /\ call' = [call EXCEPT ![w] =
                      IF rd.err # "nil"
                      THEN Ret(d, << >>, WrapError("error reading file", rd.err))
                      ELSE Ret(d, rd.bytes, NoError)]
        /\ openFiles' = [openFiles EXCEPT ![c.file].off = @ + Len(rd.bytes)]
  /\ UNCHANGED <<fs, prog, cwd, conn, logs>>

----------------------------------------------------------------------------
(* StreamFileLines *)

\* The processor of a call: it returns an error from line failAt on, as
\* lineProcessor does from line 10 on; failAt = 0 never fails, as
\* emptyProcessor.
Processor(failAt, line, lineNumber) ==
  IF failAt > 0 /\ lineNumber >= failAt THEN "demo limit reached" ELSE "nil"

\* fmt.Errorf("error processing line %d: %w", lineNumber, err)
ProcessingError(lineNumber, err) ==
  [kind |-> "error processing line", cause |-> err, line |-> lineNumber]

Stream_Begin(w, path, failAt) ==
  /\ call[w].pc = "idle"
  /\ LET c == [call[w] EXCEPT !.fn = "StreamFileLines", !.path = path, !.failAt = failAt] IN
     call' = [call EXCEPT ![w] =
                IF TrimSpace(path) = << >>
                THEN Ret(c, << >>, PlainError("file path cannot be empty"))
                ELSE [c EXCEPT !.pc = "stream_stat"]]
  /\ UNCHANGED <<fs, openFiles, prog, cwd, conn, logs>>

\* Stream_Stat without the fileInfo.IsDir() check
Stream_Stat_NoDirCheck(w) ==
  /\ call[w].pc = "stream_stat"
  /\ LET c == [call[w] EXCEPT !.ops = Append(@, "stat")]
         errno == StatErr(fs)
     IN call' = [call EXCEPT ![w] =
                   IF errno # "nil" THEN Ret(c, << >>, StatFailure(errno))
                   ELSE [c EXCEPT !.pc = "stream_open"]]
  /\ UNCHANGED <<fs, openFiles, prog, cwd, conn, logs>>

\* fileInfo, err := os.Stat(filePath) and IsDir()
Stream_Stat(w) ==
  /\ call[w].pc = "stream_stat"
  /\ LET c == [call[w] EXCEPT !.ops = Append(@, "stat")]
         errno == StatErr(fs)
     IN call' = [call EXCEPT ![w] =
                   IF errno # "nil" THEN Ret(c, << >>, StatFailure(errno))
                   ELSE IF IsDir(fs) THEN Ret(c, << >>, PlainError("path is a directory, not a file"))
                   ELSE [c EXCEPT !.pc = "stream_open"]]
  /\ UNCHANGED <<fs, openFiles, prog, cwd, conn, logs>>

\* Stream_Open numbering the lines from 0
Stream_Open_NumbersFromZero(w) ==
  /\ call[w].pc = "stream_open"
  /\ LET c == [call[w] EXCEPT !.ops = Append(@, "open")]
         errno == OpenErr(fs)
         fd == FreeFd
     IN IF errno # "nil"
        THEN /\ call' = [call EXCEPT ![w] = Ret(c, << >>, OpenFailure(errno))]
             /\ UNCHANGED openFiles
        ELSE /\ call' = [call EXCEPT ![w] =
                           [c EXCEPT !.file = fd, !.deferClose = TRUE,
                                     !.lineNumber = 0, !.pc = "stream_scan"]]
             /\ openFiles' = [openFiles EXCEPT ![fd] = [owner |-> w, off |-> 0]]
  /\ UNCHANGED <<fs, prog, cwd, conn, logs>>

\* file, err := os.Open(filePath), defer file.Close(), lineNumber := 1
Stream_Open(w) ==
  /\ call[w].pc = "stream_open"
  /\ LET c == [call[w] EXCEPT !.ops = Append(@, "open")]
         errno == OpenErr(fs)
         fd == FreeFd
     IN IF errno # "nil"
        THEN /\ call' = [call EXCEPT ![w] = Ret(c, << >>, OpenFailure(errno))]
             /\ UNCHANGED openFiles
        ELSE /\ call' = [call EXCEPT ![w] =
                           [c EXCEPT !.file = fd, !.deferClose = TRUE,
                                     !.lineNumber = 1, !.pc = "stream_scan"]]
             /\ openFiles' = [openFiles EXCEPT ![fd] = [owner |-> w, off |-> 0]]
  /\ UNCHANGED <<fs, prog, cwd, conn, logs>>

\* Stream_Scan going on to the next line after the processor's error
Stream_Scan_GoesOn(w) ==
  /\ call[w].pc = "stream_scan"
  /\ LET c == call[w]
         r == ScanLoop(fs, ScannerOf(c))
         d == [c EXCEPT !.buf = r.s.buf, !.serr = r.s.err,
                        !.ops = @ \o Reads(r.s.reads)]
         p == [d EXCEPT !.delivered = Append(@, <<r.token, c.lineNumber>>)]
         perr == Processor(c.failAt, r.token, c.lineNumber)
     IN /\ call' = [call EXCEPT ![w] =
                      IF r.ok
                      THEN [p EXCEPT !.lineNumber = c.lineNumber + 1,
                                     !.ret = IF perr # "nil" /\ c.ret.err = NoError
                                             THEN [content |-> << >>,
                                                   err |-> ProcessingError(c.lineNumber, perr)]
                                             ELSE c.ret]
                      ELSE IF c.ret.err # NoError
                           THEN Ret(d, << >>, c.ret.err)
                      ELSE IF ScannerErr(r.s.err) # "nil"
                           THEN Ret(d, << >>, WrapError("error reading file", ScannerErr(r.s.err)))
                           ELSE Ret(d, << >>, NoError)]
        /\ openFiles' = [openFiles EXCEPT ![c.file].off = r.s.off]
  /\ UNCHANGED <<fs, prog, cwd, conn, logs>>

\* One scanner.Scan() of the loop with the call of the processor or, when
\* Scan returns false, the check of scanner.Err()
Stream_Scan(w) ==
  /\ call[w].pc = "stream_scan"
  /\ LET c == call[w]
         r == ScanLoop(fs, ScannerOf(c))
         d == [c EXCEPT !.buf = r.s.buf, !.serr = r.s.err,
                        !.ops = @ \o Reads(r.s.reads)]
         p == [d EXCEPT !.delivered = Append(@, <<r.token, c.lineNumber>>)]
         perr == Processor(c.failAt, r.token, c.lineNumber)
     IN /\ call' = [call EXCEPT ![w] =
                      IF r.ok
                      THEN IF perr # "nil"
                           THEN Ret(p, << >>, ProcessingError(c.lineNumber, perr))
                           ELSE [p EXCEPT !.lineNumber = c.lineNumber + 1]
                      ELSE IF ScannerErr(r.s.err) # "nil"
                           THEN Ret(d, << >>, WrapError("error reading file", ScannerErr(r.s.err)))
                           ELSE Ret(d, << >>, NoError)]
        /\ openFiles' = [openFiles EXCEPT ![c.file].off = r.s.off]
  /\ UNCHANGED <<fs, prog, cwd, conn, logs>>

----------------------------------------------------------------------------
(* Return: the deferred file.Close() runs, then the caller has the result *)

\* Return without the deferred file.Close()
Return_NoClose(w) ==
  /\ call[w].pc = "return"
  /\ call' = [call EXCEPT ![w].pc = "done", ![w].file = 0]
  /\ UNCHANGED <<fs, openFiles, prog, cwd, conn, logs>>

Return(w) ==
  /\ call[w].pc = "return"
  /\ LET c == call[w] IN
     IF c.deferClose
     THEN /\ openFiles' = [openFiles EXCEPT ![c.file] = ClosedFile]
          /\ call' = [call EXCEPT ![w] =
                        [c EXCEPT !.pc = "done", !.file = 0, !.ops = Append(@, "close")]]
     ELSE /\ call' = [call EXCEPT ![w].pc = "done"]
          /\ UNCHANGED openFiles
  /\ UNCHANGED <<fs, prog, cwd, conn, logs>>

----------------------------------------------------------------------------
(* HTTP: requests and the routes of the mux *)

\* r.Method
Methods == {"GET", "POST"}

\* r.URL.Path is the sequence of its segments, each following one "/":
\* <<"">> is "/", <<"hello", "">> is "/hello/", <<"", "hello">> is "//hello".
Root == <<"">>

\* The patterns registered with mux.HandleFunc
Patterns == {Root, <<"hello">>, <<"health">>, <<"read-file">>}

UrlPaths == Patterns \cup {<<"nope">>, <<"hello", "">>, <<"", "hello">>}

RECURSIVE Resolve(_, _)
\* path.Clean, segment by segment: "" and "." are dropped, ".." drops the
\* segment before it
Resolve(segs, out) ==
  IF segs = << >> THEN out
  ELSE LET h == Head(segs) IN
       Resolve(Tail(segs),
               IF h \in {"", "."} THEN out
               ELSE IF h = ".." THEN (IF out = << >> THEN out ELSE SubSeq(out, 1, Len(out) - 1))
               ELSE Append(out, h))

\* cleanPath of net/http: path.Clean, a final "/" kept
CleanPath(p) ==
  LET np == Resolve(p, << >>) IN
  IF np = << >> THEN Root
  ELSE IF p[Len(p)] = "" THEN Append(np, "")
  ELSE np

\* The query string: no parameter or one, key=value
NoQuery == [key |-> "", value |-> << >>]

Queries ==
  {NoQuery} \cup {[key |-> "file", value |-> v] : v \in Paths}
            \cup {[key |-> "name", value |-> v] : v \in {<< >>, <<"s">>}}

\* r.URL.Query().Get(key): "" also when the parameter is absent
Get(query, key) == IF query.key = key THEN query.value ELSE << >>

Requests == [method : Methods, path : UrlPaths, query : Queries]

NoRequest == [method |-> "", path |-> << >>, query |-> NoQuery]

\* ServeMux: a path that is not clean is redirected to its clean form;
\* "/hello", "/health" and "/read-file" match themselves only, "/" matches
\* every other path
Handler(r) ==
  IF r.method # "CONNECT" /\ CleanPath(r.path) # r.path THEN "RedirectHandler"
  ELSE IF r.path = <<"hello">> THEN "helloHandler"
  ELSE IF r.path = <<"health">> THEN "healthHandler"
  ELSE IF r.path = <<"read-file">> THEN "fileReadHandler"
  ELSE "homeHandler"

\* The default file of /read-file and the default name of /hello
SampleTxt == <<"s", "a", "m", "p", "l", "e", ".", "t", "x", "t">>

Guest == <<"G", "u", "e", "s", "t">>

----------------------------------------------------------------------------
(* HTTP: the response writer *)

StatusOK == 200

StatusMovedPermanently == 301

StatusBadRequest == 400

StatusNotFound == 404

StatusMethodNotAllowed == 405

StatusInternalServerError == 500

\* wrapped := &responseWriter{ResponseWriter: w, statusCode: http.StatusOK}.
\* header: w.Header(); wroteHeader, status, sent: whether the status line
\* has gone out, with which code and which headers; body: what was written.
NewResponseWriter ==
  [statusCode |-> StatusOK, header |-> {}, wroteHeader |-> FALSE,
   status |-> 0, sent |-> {}, body |-> << >>]

\* Header.Set
Set(header, key, value) == {h \in header : h[1] # key} \cup {<<key, value>>}

SetHeader(rw, key, value) == [rw EXCEPT !.header = Set(@, key, value)]

\* WriteHeader of the server's ResponseWriter: the first call sends the
\* status and the headers set so far, a later call is ignored.
SendHeader(rw, code) ==
  IF rw.wroteHeader THEN rw
  ELSE [rw EXCEPT !.wroteHeader = TRUE, !.status = code, !.sent = rw.header]

\* responseWriter.WriteHeader
WriteHeader(rw, code) == SendHeader([rw EXCEPT !.statusCode = code], code)

\* One fmt.Fprint / fmt.Fprintf / Encode: the format and its arguments
Chunk(format) ==
  [format |-> format, name |-> << >>, count |-> 0, text |-> << >>, err |-> NoError]

\* Write, promoted from the embedded ResponseWriter: it sends StatusOK
\* first when no header was written.
Write(rw, chunk) == [SendHeader(rw, StatusOK) EXCEPT !.body = Append(@, chunk)]

\* json.NewEncoder(w).Encode(v): ok is whether the connection takes the write
Encode(rw, chunk, ok) == IF ok THEN Write(rw, chunk) ELSE rw

SecurityHeaders ==
  {<<"X-Content-Type-Options", "nosniff">>,
   <<"X-XSS-Protection", "1; mode=block">>,
   <<"X-Frame-Options", "DENY">>}

setCommonHeaders(rw) ==
  SetHeader(SetHeader(SetHeader(rw, "X-Content-Type-Options", "nosniff"),
                      "X-XSS-Protection", "1; mode=block"),
            "X-Frame-Options", "DENY")

\* handleNotFound without setCommonHeaders
handleNotFound_NoCommonHeaders(rw) ==
  Write(WriteHeader(SetHeader(rw, "Content-Type", "text/plain"), StatusNotFound),
        Chunk("Route not found."))

handleNotFound(rw) ==
  Write(WriteHeader(SetHeader(setCommonHeaders(rw), "Content-Type", "text/plain"),
                    StatusNotFound),
        Chunk("Route not found."))

\* handleMethodNotAllowed without the Allow header
handleMethodNotAllowed_NoAllow(rw) ==
  Write(WriteHeader(SetHeader(setCommonHeaders(rw), "Content-Type", "text/plain"),
                    StatusMethodNotAllowed),
        Chunk("Method Not Allowed."))

handleMethodNotAllowed(rw) ==
  Write(WriteHeader(SetHeader(SetHeader(setCommonHeaders(rw), "Content-Type", "text/plain"),
                              "Allow", "GET"),
                    StatusMethodNotAllowed),
        Chunk("Method Not Allowed."))

\* The result of the Encode is not looked at.
handleInternalServerError(rw, ok) ==
  Encode(WriteHeader(SetHeader(setCommonHeaders(rw), "Content-Type", "application/json"),
                     StatusInternalServerError),
         Chunk("{\"error\":\"Internal Server Error\"}\n"), ok)

\* http.Redirect to the clean path, as the mux answers a path that is not clean
Redirect(rw, r) ==
  LET h == WriteHeader(SetHeader(SetHeader(rw, "Location", CleanPath(r.path)),
                                 "Content-Type", "text/html; charset=utf-8"),
                       StatusMovedPermanently)
  IN IF r.method = "GET" THEN Write(h, Chunk("<a href=\"%s\">Moved Permanently</a>.\n\n")) ELSE h

----------------------------------------------------------------------------
(* HTTP: one request of a worker, from loggingMiddleware to its log line *)

\* pc "off": a worker that serves no request.
NewConn(pc) ==
  [pc |-> pc, r |-> NoRequest, handler |-> "none", filename |-> << >>,
   rw |-> NewResponseWriter]

\* The handler has returned: loggingMiddleware goes on to its log.Printf
Handled(c, rw) == [c EXCEPT !.pc = "log", !.rw = rw]

\* loggingMiddleware up to next.ServeHTTP(wrapped, r), where the mux selects
\* the handler
loggingMiddleware_Serve(w, r) ==
  /\ prog.pc = "serving"
  /\ conn[w].pc = "idle"
  /\ conn' = [conn EXCEPT ![w] =
                [@ EXCEPT !.pc = "handler", !.r = r, !.handler = Handler(r),
                          !.rw = NewResponseWriter]]
  /\ UNCHANGED <<fs, call, openFiles, prog, cwd, logs>>

RedirectHandler(w) ==
  /\ conn[w].pc = "handler" /\ conn[w].handler = "RedirectHandler"
  /\ conn' = [conn EXCEPT ![w] = Handled(@, Redirect(@.rw, @.r))]
  /\ UNCHANGED <<fs, call, openFiles, prog, cwd, logs>>

\* homeHandler answering every path as "/"
homeHandler_NoRouteCheck(w) ==
  /\ conn[w].pc = "handler" /\ conn[w].handler = "homeHandler"
  /\ LET c == conn[w] IN
     conn' = [conn EXCEPT ![w] =
                Handled(c,
                  IF c.r.method # "GET" THEN handleMethodNotAllowed(c.rw)
                  ELSE Write(WriteHeader(SetHeader(setCommonHeaders(c.rw),
                                                   "Content-Type", "text/plain"),
                                         StatusOK),
                             Chunk("Welcome to the Go HTTP Server")))]
  /\ UNCHANGED <<fs, call, openFiles, prog, cwd, logs>>

\* The method is checked first, then the path
homeHandler(w) ==
  /\ conn[w].pc = "handler" /\ conn[w].handler = "homeHandler"
  /\ LET c == conn[w] IN
     conn' = [conn EXCEPT ![w] =
                Handled(c,
                  IF c.r.method # "GET" THEN handleMethodNotAllowed(c.rw)
                  ELSE IF c.r.path # Root THEN handleNotFound(c.rw)
                  ELSE Write(WriteHeader(SetHeader(setCommonHeaders(c.rw),
                                                   "Content-Type", "text/plain"),
                                         StatusOK),
                             Chunk("Welcome to the Go HTTP Server")))]
  /\ UNCHANGED <<fs, call, openFiles, prog, cwd, logs>>

helloHandler(w) ==
  /\ conn[w].pc = "handler" /\ conn[w].handler = "helloHandler"
  /\ LET c == conn[w]
         given == Get(c.r.query, "name")
         name == IF given = << >> THEN Guest ELSE given
     IN conn' = [conn EXCEPT ![w] =
                   Handled(c,
                     IF c.r.method # "GET" THEN handleMethodNotAllowed(c.rw)
                     ELSE Write(WriteHeader(SetHeader(setCommonHeaders(c.rw),
                                                      "Content-Type", "text/plain"),
                                            StatusOK),
                                [Chunk("Hello, %s!") EXCEPT !.name = name]))]
  /\ UNCHANGED <<fs, call, openFiles, prog, cwd, logs>>

\* One log.Printf: the format with the method, path and status it prints
LogLine(format, r, status) ==
  [format |-> format, method |-> r.method, path |-> r.path, status |-> status]

\* When the Encode of the health response fails the connection takes no
\* later write either; the failure is logged by the handler itself.
healthHandler(w) ==
  /\ conn[w].pc = "handler" /\ conn[w].handler = "healthHandler"
  /\ \E ok \in BOOLEAN :
       LET c == conn[w]
           h == WriteHeader(SetHeader(setCommonHeaders(c.rw),
                                      "Content-Type", "application/json"),
                            StatusOK)
       IN /\ conn' = [conn EXCEPT ![w] =
                        Handled(c,
                          IF c.r.method # "GET" THEN handleMethodNotAllowed(c.rw)
                          ELSE IF ok THEN Encode(h, Chunk("{\"status\":\"ok\"}\n"), TRUE)
                          ELSE handleInternalServerError(h, FALSE))]
          /\ logs' = IF c.r.method = "GET" /\ ~ok
                     THEN Append(logs, LogLine("Error encoding health response: %v", c.r, 0))
                     ELSE logs
  /\ UNCHANGED <<fs, call, openFiles, prog, cwd>>

\* fileReadHandler up to its call of ReadFileContent
fileReadHandler(w) ==
  /\ conn[w].pc = "handler" /\ conn[w].handler = "fileReadHandler"
  /\ LET c == conn[w]
         given == Get(c.r.query, "file")
         filename == IF given = << >> THEN SampleTxt ELSE given
     IN conn' = [conn EXCEPT ![w] =
                   IF c.r.method # "GET" THEN Handled(c, handleMethodNotAllowed(c.rw))
                   ELSE [c EXCEPT !.pc = "read", !.filename = filename,
                                  !.rw = SetHeader(setCommonHeaders(c.rw),
                                                   "Content-Type", "text/plain")]]
  /\ UNCHANGED <<fs, call, openFiles, prog, cwd, logs>>

\* content, err := ReadFileContent(filename)
fileReadHandler_Read(w) ==
  /\ conn[w].pc = "read"
  /\ RFC_Begin(w, conn[w].filename)

\* ReadFailed answering StatusOK
ReadFailed_StatusOK(rw, filename, err) ==
  Write(WriteHeader(rw, StatusOK),
        [Chunk("Error reading file '%s': %v\n") EXCEPT !.name = filename, !.err = err])

\* err != nil
ReadFailed(rw, filename, err) ==
  Write(WriteHeader(rw, StatusBadRequest),
        [Chunk("Error reading file '%s': %v\n") EXCEPT !.name = filename, !.err = err])

\* ReadSucceeded printing the size the file has on disk
ReadSucceeded_SizeOnDisk(rw, filename, content) ==
  Write(WriteHeader(rw, StatusOK),
        [Chunk("Content of '%s' (%d characters):\n\n%s") EXCEPT
           !.name = filename, !.count = Size(fs), !.text = content])

\* err == nil: the content ReadFileContent returned and its len
ReadSucceeded(rw, filename, content) ==
  Write(WriteHeader(rw, StatusOK),
        [Chunk("Content of '%s' (%d characters):\n\n%s") EXCEPT
           !.name = filename, !.count = ByteLen(content), !.text = content])

\* fileReadHandler after ReadFileContent has returned
fileReadHandler_Respond(w) ==
  /\ conn[w].pc = "read"
  /\ call[w].pc = "done"
  /\ LET c == conn[w]
         ret == call[w].ret
     IN conn' = [conn EXCEPT ![w] =
                   Handled(c, IF ret.err # NoError THEN ReadFailed(c.rw, c.filename, ret.err)
                              ELSE ReadSucceeded(c.rw, c.filename, ret.content))]
  /\ UNCHANGED <<fs, call, openFiles, prog, cwd, logs>>

\* loggingMiddleware after next.ServeHTTP has returned: its log.Printf
loggingMiddleware_Log(w) ==
  /\ conn[w].pc = "log"
  /\ logs' = Append(logs, LogLine("[%s] %s %s - Status: %d - Duration: %v - User-Agent: %s",
                                  conn[w].r, conn[w].rw.statusCode))
  /\ conn' = [conn EXCEPT ![w].pc = "done"]
  /\ UNCHANGED <<fs, call, openFiles, prog, cwd>>

----------------------------------------------------------------------------
(* main and its commands *)

\* os.Args[1]: "" is no argument, "serve" any word that is no command.
Args ==
  {"", "test-file-reader", "create-test-files", "cleanup-test-files",
   "demo-file-reader", "serve"}

\* The goroutine of main
MainWorker == "w1"

\* pc "off": the functions are called as a library.
NewProg(pc, arg) == [pc |-> pc, arg |-> arg, stdout |-> << >>]

\* The working directory: whether large_test.txt is absent, present or
\* written by createTestFiles, and whether files can be created and removed.
Cwds == [largeTest : {"absent", "present"}, writable : BOOLEAN]

\* createTestFiles: os.Create("large_test.txt") and its 1000 lines
createTestFiles(d) == IF d.writable THEN [d EXCEPT !.largeTest = "written"] ELSE d

createTestFiles_Prints(d) ==
  IF d.writable THEN Chunk("Created large_test.txt with 1000 lines for testing")
  ELSE Chunk("Warning: Could not create large test file: %v\n")

\* cleanupTestFiles: os.Remove("large_test.txt"), a missing file ignored
cleanupTestFiles(d) == IF d.writable THEN [d EXCEPT !.largeTest = "absent"] ELSE d

cleanupTestFiles_Prints(d) ==
  IF d.largeTest # "absent" /\ ~d.writable
  THEN <<Chunk("Warning: Could not remove %s: %v\n")>> ELSE << >>

\* case "test-file-reader": the calls of testReadFileContent change nothing
main_TestFileReader ==
  /\ prog.pc = "main" /\ prog.arg = "test-file-reader"
  /\ prog' = [prog EXCEPT !.pc = "returned"]
  /\ UNCHANGED <<fs, call, openFiles, cwd, conn, logs>>

main_CreateTestFiles ==
  /\ prog.pc = "main" /\ prog.arg = "create-test-files"
  /\ cwd' = createTestFiles(cwd)
  /\ prog' = [prog EXCEPT !.pc = "returned", !.stdout = Append(@, createTestFiles_Prints(cwd))]
  /\ UNCHANGED <<fs, call, openFiles, conn, logs>>

main_CleanupTestFiles ==
  /\ prog.pc = "main" /\ prog.arg = "cleanup-test-files"
  /\ cwd' = cleanupTestFiles(cwd)
  /\ prog' = [prog EXCEPT !.pc = "returned", !.stdout = @ \o cleanupTestFiles_Prints(cwd)]
  /\ UNCHANGED <<fs, call, openFiles, conn, logs>>

\* case "demo-file-reader": os.Stat("sample.txt") and os.IsNotExist(err)
main_DemoStat ==
  /\ prog.pc = "main" /\ prog.arg = "demo-file-reader"
  /\ prog' = [prog EXCEPT !.pc = IF IsNotExist(StatErr(fs)) THEN "demo_create" ELSE "demo_read"]
  /\ UNCHANGED <<fs, call, openFiles, cwd, conn, logs>>

\* The branch of the missing sample.txt: the announcement and createTestFiles()
main_DemoCreate ==
  /\ prog.pc = "demo_create"
  /\ cwd' = createTestFiles(cwd)
  /\ prog' = [prog EXCEPT !.pc = "demo_read",
                          !.stdout = @ \o <<Chunk("Creating sample.txt for demonstration..."),
                                            createTestFiles_Prints(cwd)>>]
  /\ UNCHANGED <<fs, call, openFiles, conn, logs>>

\* content, err := ReadFileContent("sample.txt")
main_DemoRead ==
  /\ prog.pc = "demo_read"
  /\ RFC_Begin(MainWorker, SampleTxt)

\* The result is printed and main returns.
main_DemoPrint ==
  /\ prog.pc = "demo_read"
  /\ call[MainWorker].pc = "done"
  /\ LET ret == call[MainWorker].ret IN
     prog' = [prog EXCEPT
                !.pc = "returned",
                !.stdout = Append(@, IF ret.err # NoError
                                     THEN [Chunk("Error: %v\n") EXCEPT !.err = ret.err]
                                     ELSE [Chunk("Successfully read %d characters\n") EXCEPT
                                             !.count = ByteLen(ret.content)])]
  /\ UNCHANGED <<fs, call, openFiles, cwd, conn, logs>>

\* No command: http.ListenAndServe serves, or fails and log.Fatalf exits.
startHTTPServer ==
  /\ prog.pc = "main" /\ prog.arg \notin {"test-file-reader", "create-test-files",
                                          "cleanup-test-files", "demo-file-reader"}
  /\ \E ok \in BOOLEAN : prog' = [prog EXCEPT !.pc = IF ok THEN "serving" ELSE "fatal"]
  /\ UNCHANGED <<fs, call, openFiles, cwd, conn, logs>>

----------------------------------------------------------------------------
(* Specifications *)

RECURSIVE Files(_)
\* Every file of at most n symbols
Files(n) ==
  IF n = 0 THEN {<< >>}
  ELSE LET shorter == Files(n - 1) IN
       shorter \cup {Append(d, b) : d \in {x \in shorter : Len(x) = n - 1}, b \in Byte}

\* The line numbers a processor may fail at; 0: it never fails.
FailAts == 0..MaxLen

\* The files of the concurrent specification: empty, lines with and
\* without a final line end, a line too long for the scanner.
ConcFiles == {<< >>, <<"a", "\n", "a">>, <<"\n">>, <<"X">>}

ConcFailAts == {0, 1}

\* The files behind sample.txt and the file parameter of /read-file: empty,
\* "\n" and "\r\n" line ends, with and without a final line end, an empty
\* first line, a line too long for the scanner.
ServedFiles ==
  {<< >>, <<"a">>, <<"a", "\n">>, <<"a", "\r", "\n">>, <<"a", "\n", "a">>,
   <<"\n", "a">>, <<"X">>, <<"a", "\n", "X">>}

\* The functions called as a library: no program, no request.
InitWith(contents, running) ==
  /\ fs \in Entries(contents)
  /\ call = [w \in Workers |-> NewCall(IF w \in running THEN "idle" ELSE "off")]
  /\ openFiles = [fd \in Fds |-> ClosedFile]
  /\ prog = NewProg("off", "")
  /\ cwd = [largeTest |-> "absent", writable |-> TRUE]
  /\ conn = [w \in Workers |-> NewConn("off")]
  /\ logs = << >>

Init == InitWith(Files(MaxLen), {"w1"})

InitConc == InitWith(ConcFiles, Workers)

\* The workers the specification runs: all of them only in the concurrent
\* one, whose processors fail at a line of ConcFailAts.
Running == {w \in Workers : call[w].pc # "off"}

Next ==
  \E w \in Workers :
    \/ \E path \in Paths : RFC_Begin(w, path)
    \/ RFC_Open(w)
    \/ RFC_Stat(w)
    \/ RFC_Scan(w)
    \/ \E path \in Paths : Simple_Begin(w, path)
    \/ Simple_ReadFile(w)
    \/ \E path \in Paths : Ioutil_Begin(w, path)
    \/ Ioutil_Stat(w)
    \/ Ioutil_Open(w)
    \/ Ioutil_ReadAll(w)
    \/ \E path \in Paths, failAt \in IF Running = Workers THEN ConcFailAts ELSE FailAts :
         Stream_Begin(w, path, failAt)
    \/ Stream_Stat(w)
    \/ Stream_Open(w)
    \/ Stream_Scan(w)
    \/ Return(w)

Spec == Init /\ [][Next]_vars

SpecConc == InitConc /\ [][Next]_vars

\* The program: main runs a command with ReadFileContent called by its own
\* goroutine, or serves one request.
InitMain ==
  /\ fs \in Entries(ServedFiles)
  /\ call = [w \in Workers |-> NewCall(IF w = MainWorker THEN "idle" ELSE "off")]
  /\ openFiles = [fd \in Fds |-> ClosedFile]
  /\ prog \in {NewProg("main", arg) : arg \in Args}
  /\ cwd \in Cwds
  /\ conn = [w \in Workers |-> NewConn(IF w = MainWorker THEN "idle" ELSE "off")]
  /\ logs = << >>

NextMain ==
  \/ main_TestFileReader
  \/ main_CreateTestFiles
  \/ main_CleanupTestFiles
  \/ main_DemoStat
  \/ main_DemoCreate
  \/ main_DemoRead
  \/ main_DemoPrint
  \/ startHTTPServer
  \/ \E w \in Workers :
       \/ \E r \in Requests : loggingMiddleware_Serve(w, r)
       \/ RedirectHandler(w)
       \/ homeHandler(w)
       \/ helloHandler(w)
       \/ healthHandler(w)
       \/ fileReadHandler(w)
       \/ fileReadHandler_Read(w)
       \/ RFC_Open(w)
       \/ RFC_Stat(w)
       \/ RFC_Scan(w)
       \/ Return(w)
       \/ fileReadHandler_Respond(w)
       \/ loggingMiddleware_Log(w)

SpecMain == InitMain /\ [][NextMain]_vars

----------------------------------------------------------------------------
(* Vocabulary of the properties *)

Done(w) == call[w].pc = "done"

ReadFns == {"ReadFileContent", "ReadFileContentSimple", "ReadFileContentIoutil"}

\* Empty or whitespace only.
Blank(path) == \A i \in 1..Len(path) : path[i] \in {" ", "\t", "\n", "\r"}

\* A finished call of one of the three read strategies on a non-blank path.
ReadDone(w) == Done(w) /\ call[w].fn \in ReadFns /\ ~Blank(call[w].path)

Failed(w) == call[w].ret.err # NoError

\* A regular file that can be stat'ed, opened and read to its end.
Readable(e) == e.kind = "file" /\ e.access = "ok" /\ e.fault = "none"

\* C1: a call on an empty or whitespace-only path fails with 'file path
\* cannot be empty' and has performed no filesystem operation.
C1_BlankPathRejectedBeforeFsAccess ==
  \A w \in Workers :
    Done(w) /\ Blank(call[w].path) =>
      /\ call[w].ret.err = PlainError("file path cannot be empty")
      /\ call[w].ops = << >>

\* C2 as claimed: on a non-blank path with no entry, all three strategies
\* fail and both ReadFileContent and ReadFileContentIoutil report 'file does
\* not exist'.
C2_MissingReportedAsNotFound ==
  \A w \in Workers :
    ReadDone(w) /\ fs.kind = "none" =>
      /\ Failed(w)
      /\ call[w].fn \in {"ReadFileContent", "ReadFileContentIoutil"} =>
           call[w].ret.err.kind = "file does not exist"

\* C2 as amended: on a non-blank path with no entry, all three strategies
\* fail with no content; ReadFileContentIoutil reports the distinct 'file does
\* not exist', ReadFileContent and ReadFileContentSimple their generic wrapped
\* I/O error, whose wrapped cause is the not-exist error.
C2_MissingFails ==
  \A w \in Workers :
    ReadDone(w) /\ fs.kind = "none" =>
      /\ call[w].ret.content = << >>
      /\ call[w].fn = "ReadFileContentIoutil" =>
           call[w].ret.err = PlainError("file does not exist")
      /\ call[w].fn = "ReadFileContent" =>
           call[w].ret.err = WrapError("failed to open file", "ENOENT")
      /\ call[w].fn = "ReadFileContentSimple" =>
           call[w].ret.err = WrapError("failed to read file", "ENOENT")

C2_Witness ==
  \E w \in Workers :
    /\ ReadDone(w) /\ fs.kind = "none"
    /\ call[w].fn = "ReadFileContentIoutil"
    /\ call[w].ret.err.kind = "file does not exist"

\* C3 as claimed: on every path naming a directory, ReadFileContent and
\* ReadFileContentIoutil fail with their is-a-directory error and
\* ReadFileContentSimple with 'failed to read file'.
C3_DirectoryRejected ==
  \A w \in Workers :
    ReadDone(w) /\ fs.kind = "dir" =>
      /\ call[w].fn = "ReadFileContent" =>
           call[w].ret.err = PlainError("is a directory, not a file")
      /\ call[w].fn = "ReadFileContentIoutil" =>
           call[w].ret.err = PlainError("path is a directory, not a file")
      /\ call[w].fn = "ReadFileContentSimple" =>
           call[w].ret.err.kind = "failed to read file"

\* C3 as amended: the same, on every path naming a directory that the caller
\* is permitted to stat and to open; no content is returned.
C3_AccessibleDirectoryRejected ==
  \A w \in Workers :
    ReadDone(w) /\ fs.kind = "dir" /\ fs.access = "ok" =>
      /\ call[w].ret.content = << >>
      /\ call[w].fn = "ReadFileContent" =>
           call[w].ret.err = PlainError("is a directory, not a file")
      /\ call[w].fn = "ReadFileContentIoutil" =>
           call[w].ret.err = PlainError("path is a directory, not a file")
      /\ call[w].fn = "ReadFileContentSimple" =>
           call[w].ret.err = WrapError("failed to read file", "EISDIR")

C3_Witness ==
  \E w \in Workers :
    /\ ReadDone(w) /\ fs.kind = "dir" /\ fs.access = "ok"
    /\ call[w].fn = "ReadFileContent"
    /\ call[w].ops = <<"open", "fstat", "close">>
    /\ call[w].ret.err.kind = "is a directory, not a file"

\* C4 as claimed: on an entry that exists and cannot be accessed,
\* ReadFileContent and ReadFileContentIoutil fail with the distinct
\* 'permission denied' error.
C4_DeniedReportedAsPermission ==
  \A w \in Workers :
    /\ ReadDone(w) /\ call[w].fn \in {"ReadFileContent", "ReadFileContentIoutil"}
    /\ fs.kind # "none" /\ fs.access # "ok"
    => call[w].ret.err.kind = "permission denied: cannot read file"

\* C4 as amended: on an entry that exists and cannot be accessed,
\* ReadFileContent fails with its generic wrapped open error, the permission
\* error being the wrapped cause.  ReadFileContentIoutil fails with the
\* distinct 'permission denied' error when stat succeeds and the open of a
\* non-empty regular file is refused; it fails with the wrapped 'failed to
\* access file info' when stat is refused, with its is-a-directory error on a
\* directory, and returns empty success on a zero-length file.
C4_DeniedOutcomes ==
  \A w \in Workers :
    ReadDone(w) /\ fs.kind # "none" /\ fs.access # "ok" =>
      /\ call[w].ret.content = << >>
      /\ call[w].fn = "ReadFileContent" =>
           call[w].ret.err = WrapError("failed to open file", "EACCES")
      /\ call[w].fn = "ReadFileContentIoutil" =>
           call[w].ret.err =
             IF fs.access = "nosearch" THEN WrapError("failed to access file info", "EACCES")
             ELSE IF fs.kind = "dir" THEN PlainError("path is a directory, not a file")
             ELSE IF fs.data = << >> THEN NoError
             ELSE PlainError("permission denied: cannot read file")

C4_Witness ==
  \E w \in Workers :
    /\ ReadDone(w) /\ call[w].fn = "ReadFileContentIoutil"
    /\ fs.kind = "file" /\ fs.access = "noread" /\ fs.data # << >>
    /\ call[w].ops = <<"stat", "open">>
    /\ call[w].ret.err.kind = "permission denied: cannot read file"

\* C5: on an existing, readable, zero-length regular file each of the three
\* read strategies returns the empty string and a nil error.
C5_EmptyFileReadsEmpty ==
  \A w \in Workers :
    ReadDone(w) /\ Readable(fs) /\ fs.data = << >> =>
      call[w].ret = [content |-> << >>, err |-> NoError]

C5_Witness ==
  \E w \in Workers :
    /\ ReadDone(w) /\ Readable(fs) /\ fs.data = << >>
    /\ call[w].fn = "ReadFileContent"
    /\ call[w].ops = <<"open", "fstat", "read", "close">>
    /\ ~Failed(w)

----------------------------------------------------------------------------
(* Lines of a text, by position: a line ends at each "\n", a last line     *)
(* without one counts when it is not empty, and a line's text is its       *)
(* bytes without one final "\r"                                            *)

\* The positions of the line ends of text t, and of the end of t itself
\* when it ends an unterminated last line.
LineEnds(t) ==
  {i \in 1..Len(t) : t[i] = "\n"}
    \cup (IF t # << >> /\ t[Len(t)] # "\n" THEN {Len(t) + 1} ELSE {})

NumLines(t) == Cardinality(LineEnds(t))

\* The position ending line k of t
LineEnd(t, k) ==
  CHOOSE i \in LineEnds(t) : Cardinality({j \in LineEnds(t) : j <= i}) = k

\* The bytes of line k of t, before its "\n"
RawLine(t, k) ==
  SubSeq(t, IF k = 1 THEN 1 ELSE LineEnd(t, k - 1) + 1, LineEnd(t, k) - 1)

\* Line k of t
Line(t, k) ==
  LET raw == RawLine(t, k) IN
  IF raw # << >> /\ raw[Len(raw)] = "\r" THEN SubSeq(raw, 1, Len(raw) - 1) ELSE raw

\* The first n lines of t joined by one "\n" between neighbours
JoinedLines(t, n) ==
  LET join[k \in 0..n] ==
        IF k = 0 THEN << >>
        ELSE IF k = 1 THEN Line(t, 1)
        ELSE join[k - 1] \o <<"\n">> \o Line(t, k)
  IN join[n]

\* Line k of t, without its "\n", is shorter than the scanner's buffer.
ShortLine(t, k) == ByteLen(RawLine(t, k)) < MaxScanTokenSize

\* C6: a read strategy that returns an error returns the empty string with
\* it, also when lines or bytes had been read before the failure.
C6_NoContentWithError ==
  \A w \in Workers :
    Done(w) /\ call[w].fn \in ReadFns /\ Failed(w) => call[w].ret.content = << >>

C6_Witness ==
  \E w \in Workers :
    /\ Done(w) /\ call[w].fn = "ReadFileContent"
    /\ call[w].ret.err.kind = "error reading file"
    /\ call[w].content # << >>
    /\ call[w].ret.content = << >>

\* C7 as claimed: on every non-empty, existing, readable regular file each
\* read strategy succeeds with content of as many lines as the file; the
\* whole-file strategies return the file's bytes, ReadFileContent the file's
\* lines joined by "\n".
C7_ReadsAnyFile ==
  \A w \in Workers :
    ReadDone(w) /\ Readable(fs) /\ fs.data # << >> =>
      /\ ~Failed(w)
      /\ NumLines(call[w].ret.content) = NumLines(fs.data)
      /\ call[w].fn # "ReadFileContent" => call[w].ret.content = fs.data
      /\ call[w].fn = "ReadFileContent" =>
           call[w].ret.content = JoinedLines(fs.data, NumLines(fs.data))

\* C7 as amended: on every non-empty, existing, readable regular file the two
\* whole-file strategies succeed and return the file's bytes; ReadFileContent
\* succeeds when every line of the file is shorter than MaxScanTokenSize, and
\* then returns the file's lines, ended by "\n" or "\r\n", joined by a single
\* "\n"; that content has as many lines as the file when the file's last line
\* is not empty.
C7_ReadsFileOfShortLines ==
  \A w \in Workers :
    ReadDone(w) /\ Readable(fs) /\ fs.data # << >> =>
      LET n == NumLines(fs.data) IN
      /\ call[w].fn # "ReadFileContent" =>
           /\ ~Failed(w)
           /\ call[w].ret.content = fs.data
           /\ NumLines(call[w].ret.content) = n
      /\ call[w].fn = "ReadFileContent" /\ (\A k \in 1..n : ShortLine(fs.data, k)) =>
           /\ ~Failed(w)
           /\ call[w].ret.content = JoinedLines(fs.data, n)
           /\ Line(fs.data, n) # << >> => NumLines(call[w].ret.content) = n

C7_Witness ==
  \E w \in Workers :
    /\ ReadDone(w) /\ Readable(fs) /\ call[w].fn = "ReadFileContent"
    /\ fs.data = <<"a", "\r", "\n", "a">>
    /\ call[w].ret = [content |-> <<"a", "\n", "a">>, err |-> NoError]

\* The first n lines of t as the processor is to receive them
Deliveries(t, n) == [k \in 1..n |-> <<Line(t, k), k>>]

\* A finished StreamFileLines call on a non-blank path.
StreamDone(w) == Done(w) /\ call[w].fn = "StreamFileLines" /\ ~Blank(call[w].path)

\* The first n lines of entry e reach the scanner whole: no read fault before
\* the end of line n.
ReadWithoutFault(e, n) ==
  /\ e.kind = "file" /\ e.access = "ok" /\ e.fault # "stat"
  /\ e.fault = "read" =>
       e.faultAt >= (IF LineEnd(e.data, n) > Len(e.data) THEN Len(e.data)
                     ELSE LineEnd(e.data, n))

\* C8 as claimed: on a readable file of M lines with a processor failing
\* first on line N, 1 <= N <= M, the processor receives lines 1..N in order
\* and nothing more, and the call returns 'error processing line N' wrapping
\* the processor's error.
C8_StopsAtProcessorError ==
  \A w \in Workers :
    LET n == call[w].failAt IN
    StreamDone(w) /\ Readable(fs) /\ 1 <= n /\ n <= NumLines(fs.data) =>
      /\ call[w].delivered = Deliveries(fs.data, n)
      /\ call[w].ret.err = ProcessingError(n, "demo limit reached")

\* C8 as amended: the same, provided lines 1..N are each shorter than
\* MaxScanTokenSize and are read without an I/O error.
C8_StopsAtProcessorErrorOnShortLines ==
  \A w \in Workers :
    LET n == call[w].failAt IN
    /\ StreamDone(w) /\ fs.kind = "file" /\ 1 <= n /\ n <= NumLines(fs.data)
    /\ ReadWithoutFault(fs, n)
    /\ \A k \in 1..n : ShortLine(fs.data, k)
    => /\ call[w].delivered = Deliveries(fs.data, n)
       /\ call[w].ret.err = ProcessingError(n, "demo limit reached")

C8_Witness ==
  \E w \in Workers :
    /\ StreamDone(w) /\ Readable(fs) /\ call[w].failAt = 2
    /\ NumLines(fs.data) = 3
    /\ Len(call[w].delivered) = 2
    /\ call[w].ret.err.kind = "error processing line" /\ call[w].ret.err.line = 2

\* C9 as claimed: on an existing readable regular file of M >= 0 lines with
\* a processor that never fails, invocation k receives line k and number k,
\* for k = 1..M and no more, and the call returns nil.
C9_DeliversEveryLine ==
  \A w \in Workers :
    StreamDone(w) /\ Readable(fs) /\ call[w].failAt = 0 =>
      /\ call[w].delivered = Deliveries(fs.data, NumLines(fs.data))
      /\ call[w].ret.err = NoError

\* C9 as amended: the same, on a file whose lines are each shorter than
\* MaxScanTokenSize.
C9_DeliversEveryShortLine ==
  \A w \in Workers :
    /\ StreamDone(w) /\ Readable(fs) /\ call[w].failAt = 0
    /\ \A k \in 1..NumLines(fs.data) : ShortLine(fs.data, k)
    => /\ call[w].delivered = Deliveries(fs.data, NumLines(fs.data))
       /\ call[w].ret.err = NoError

C9_Witness ==
  \E w \in Workers :
    /\ StreamDone(w) /\ Readable(fs) /\ call[w].failAt = 0
    /\ fs.data = <<"a", "\r", "\n", "\n">>
    /\ call[w].delivered = << <<<<"a">>, 1>>, <<<< >>, 2>> >>
    /\ call[w].ret.err = NoError

\* The steps at which a call reads through its handle.
UsesHandle(w) == call[w].pc \in {"rfc_stat", "rfc_scan", "ioutil_read", "stream_scan"}

HandlesOf(w) == {fd \in Fds : openFiles[fd].owner = w}

\* C10: a call that is not running owns no open handle (every handle is
\* closed before its call returns, on every exit path); a call reads only
\* through the one handle it opened itself; once all calls have returned no
\* handle is open.
C10_HandlesScopedToCall ==
  /\ \A w \in Workers : call[w].pc \in {"off", "idle", "done"} => HandlesOf(w) = {}
  /\ \A w \in Workers : UsesHandle(w) => HandlesOf(w) = {call[w].file}
  /\ (\A w \in Workers : Done(w)) => \A fd \in Fds : openFiles[fd] = ClosedFile

\* Both workers have returned, each after opening a handle, one of them
\* through an error path and another through success.
C10_Witness ==
  /\ \A w \in Workers : Done(w) /\ call[w].fn # "ReadFileContentSimple"
                        /\ \E i \in 1..Len(call[w].ops) : call[w].ops[i] = "open"
  /\ \E w \in Workers : call[w].ret.err.kind = "error processing line"
  /\ \E w \in Workers : call[w].fn = "ReadFileContent" /\ ~Failed(w)
  /\ \A fd \in Fds : openFiles[fd] = ClosedFile

----------------------------------------------------------------------------
(* The line-accumulating strategy, the zero-length return and the probes    *)

\* The number of "\n" in text t
Newlines(t) == Cardinality({i \in 1..Len(t) : t[i] = "\n"})

\* C17: a ReadFileContent call that succeeds has scanned every line of the
\* file and returns these lines, without their terminators, joined by one
\* "\n" between neighbours and none after the last: nothing for no line,
\* exactly n - 1 "\n" for n >= 1 lines, an empty first line kept as the text
\* before the first "\n", and one "\n" fewer than the file when the file ends
\* with one.
C17_LinesJoinedByNewline ==
  \A w \in Workers :
    Done(w) /\ call[w].fn = "ReadFileContent" /\ ~Failed(w) =>
      LET n == NumLines(fs.data)
          content == call[w].ret.content
      IN /\ call[w].lineCount = n
         /\ content = JoinedLines(fs.data, n)
         /\ n = 0 => content = << >>
         /\ n >= 1 => Newlines(content) = n - 1
         /\ n >= 2 /\ Line(fs.data, 1) = << >> => content[1] = "\n"
         /\ n >= 1 /\ fs.data[Len(fs.data)] = "\n" => Newlines(content) = Newlines(fs.data) - 1

\* An empty first line, a second line and a final "\n"
C17_Witness ==
  \E w \in Workers :
    /\ Done(w) /\ call[w].fn = "ReadFileContent" /\ ~Failed(w)
    /\ fs.data = <<"\n", "a", "\n">>
    /\ call[w].lineCount = 2
    /\ call[w].ret.content = <<"\n", "a">>

\* C18: a ReadFileContentIoutil call on a path whose stat reports a regular
\* file of size 0 returns the empty string and nil having performed the stat
\* and nothing else: no open, no read, and no handle to close.
C18_ZeroLengthNeverOpened ==
  \A w \in Workers :
    /\ Done(w) /\ call[w].fn = "ReadFileContentIoutil" /\ ~Blank(call[w].path)
    /\ StatErr(fs) = "nil" /\ ~IsDir(fs) /\ Size(fs) = 0
    => /\ call[w].ret = [content |-> << >>, err |-> NoError]
       /\ call[w].ops = <<"stat">>
       /\ ~call[w].deferClose

\* The zero-length file could not have been opened.
C18_Witness ==
  \E w \in Workers :
    /\ Done(w) /\ call[w].fn = "ReadFileContentIoutil" /\ ~Blank(call[w].path)
    /\ fs.kind = "file" /\ fs.access = "noread" /\ fs.data = << >>
    /\ call[w].ops = <<"stat">>
    /\ ~Failed(w)

\* The call has opened, or tried to open, the file.
Opened(w) == \E i \in 1..Len(call[w].ops) : call[w].ops[i] = "open"

\* The call has failed in its validation or its probe, before any open.
FailedBeforeOpen(w) == Failed(w) /\ ~Opened(w)

\* Two finished calls, of StreamFileLines and of fn, on the same path
SamePath(w, v, fn) ==
  /\ Done(w) /\ call[w].fn = "StreamFileLines"
  /\ Done(v) /\ call[v].fn = fn
  /\ call[v].path = call[w].path

\* C19 as claimed: on every path, StreamFileLines fails before opening the
\* file exactly when ReadFileContentIoutil fails and exactly when
\* ReadFileContentSimple fails on that path, and then with the same error.
C19_ProbesAsWholeFileStrategies ==
  \A w, v \in Workers :
    \A fn \in {"ReadFileContentIoutil", "ReadFileContentSimple"} :
      SamePath(w, v, fn) =>
        /\ FailedBeforeOpen(w) <=> Failed(v)
        /\ FailedBeforeOpen(w) => call[v].ret.err.kind = call[w].ret.err.kind

\* C19 as amended: StreamFileLines validates and probes its path exactly as
\* ReadFileContentIoutil does: on every path one fails before opening the
\* file exactly when the other does, and with the same error ('file path
\* cannot be empty', 'file does not exist', 'failed to access file info',
\* 'path is a directory, not a file'); StreamFileLines goes on to open a
\* zero-length file that ReadFileContentIoutil returns for unopened, and
\* ReadFileContentIoutil fails also after the probe, in open or read.
\* ReadFileContentSimple neither trims nor probes: it performs no stat,
\* rejects only the empty string as 'file path cannot be empty' and reports
\* every other failure as 'failed to read file'.
C19_ProbesAsIoutil ==
  \A w, v \in Workers :
    /\ SamePath(w, v, "ReadFileContentIoutil") =>
         /\ FailedBeforeOpen(w) <=> FailedBeforeOpen(v)
         /\ FailedBeforeOpen(w) => call[v].ret.err = call[w].ret.err
         /\ ~FailedBeforeOpen(w) => (Opened(w) /\ (Opened(v) <=> Size(fs) # 0))
    /\ SamePath(w, v, "ReadFileContentSimple") =>
         /\ \A i \in 1..Len(call[v].ops) : call[v].ops[i] # "stat"
         /\ Failed(v) =>
              call[v].ret.err.kind =
                IF call[v].path = << >> THEN "file path cannot be empty"
                ELSE "failed to read file"

\* Both calls turn a directory down after the stat.
C19_Witness ==
  \E w, v \in Workers :
    /\ SamePath(w, v, "ReadFileContentIoutil")
    /\ ~Blank(call[w].path) /\ fs.kind = "dir"
    /\ call[w].ops = <<"stat">> /\ call[v].ops = <<"stat">>
    /\ call[w].ret.err = PlainError("path is a directory, not a file")
    /\ call[v].ret.err = call[w].ret.err

----------------------------------------------------------------------------
(* The HTTP server *)

\* The handler of worker w's request has returned.
Answered(w) == conn[w].pc \in {"log", "done"}

\* The one chunk of a body written with format and no argument
Fixed(format) == <<Chunk(format)>>

\* A GET of /read-file whose file parameter is the non-empty NAME
ReadFileRequest(w) ==
  /\ conn[w].r.method = "GET" /\ conn[w].r.path = <<"read-file">>
  /\ conn[w].r.query.key = "file" /\ conn[w].r.query.value # << >>

\* The success body of /read-file for content under name with count
ContentBody(name, count, content) ==
  <<[Chunk("Content of '%s' (%d characters):\n\n%s") EXCEPT
       !.name = name, !.count = count, !.text = content]>>

\* The failure body of /read-file
ErrorBody(name, err) ==
  <<[Chunk("Error reading file '%s': %v\n") EXCEPT !.name = name, !.err = err]>>

\* C11 as claimed: GET /read-file?file=NAME on an existing readable regular
\* file is answered 200 with a body holding the file's exact size and the
\* file's exact content.
C11_ServesExactFile ==
  \A w \in Workers :
    Answered(w) /\ ReadFileRequest(w) /\ Readable(fs) =>
      /\ conn[w].rw.status = StatusOK
      /\ conn[w].rw.body = ContentBody(conn[w].r.query.value, Size(fs), fs.data)

\* C11 as amended: GET /read-file?file=NAME on an existing readable regular
\* file whose lines are each shorter than MaxScanTokenSize is answered 200
\* with a body holding NAME, the content ReadFileContent returns (the file's
\* lines, ended by "\n" or "\r\n", joined by a single "\n", without a final
\* line end) and the length of that content in bytes; on a file with a longer
\* line the answer is 400 with 'error reading file', token too long.
C11_ServesJoinedLines ==
  \A w \in Workers :
    Answered(w) /\ ReadFileRequest(w) /\ Readable(fs) =>
      LET n == NumLines(fs.data)
          joined == JoinedLines(fs.data, n)
          name == conn[w].r.query.value
      IN IF \A k \in 1..n : ShortLine(fs.data, k)
         THEN /\ conn[w].rw.status = StatusOK
              /\ conn[w].rw.body = ContentBody(name, ByteLen(joined), joined)
         ELSE /\ conn[w].rw.status = StatusBadRequest
              /\ conn[w].rw.body = ErrorBody(name, WrapError("error reading file", "ErrTooLong"))

\* A file of three bytes is served as one character.
C11_Witness ==
  \E w \in Workers :
    /\ Answered(w) /\ ReadFileRequest(w) /\ Readable(fs)
    /\ fs.data = <<"a", "\r", "\n">>
    /\ conn[w].rw.status = StatusOK
    /\ conn[w].rw.body = ContentBody(<<"s">>, 1, <<"a">>)

\* C12: when the ReadFileContent call of a GET /read-file has failed, for
\* whatever reason, 200 is not written at any time, and once the handler has
\* returned the status sent is 400 and the body holds the name read, which
\* is NAME when the file parameter is not empty, and the error of the call.
C12_FailedReadIs400 ==
  \A w \in Workers :
    /\ conn[w].handler = "fileReadHandler" /\ conn[w].r.method = "GET"
    /\ call[w].pc \in {"return", "done"} /\ Failed(w)
    => /\ conn[w].rw.status # StatusOK
       /\ Answered(w) =>
            /\ conn[w].rw.status = StatusBadRequest
            /\ conn[w].rw.statusCode = StatusBadRequest
            /\ conn[w].rw.body = ErrorBody(conn[w].filename, call[w].ret.err)
            /\ Get(conn[w].r.query, "file") # << >> =>
                 conn[w].filename = conn[w].r.query.value

\* file=s where no such file exists
C12_Witness ==
  \E w \in Workers :
    /\ Answered(w) /\ ReadFileRequest(w) /\ fs.kind = "none"
    /\ conn[w].r.query.value = <<"s">>
    /\ conn[w].rw.status = StatusBadRequest
    /\ conn[w].rw.body = ErrorBody(<<"s">>, WrapError("failed to open file", "ENOENT"))

\* C13: GET /read-file?file= is answered 400 with "Error reading file '':
\* file path cannot be empty", the empty path having been given to
\* ReadFileContent.
C13_EmptyFileParameterRejected ==
  \A w \in Workers :
    /\ Answered(w)
    /\ conn[w].r.method = "GET" /\ conn[w].r.path = <<"read-file">>
    /\ conn[w].r.query = [key |-> "file", value |-> << >>]
    => /\ call[w].path = << >>
       /\ conn[w].rw.status = StatusBadRequest
       /\ conn[w].rw.body = ErrorBody(<< >>, PlainError("file path cannot be empty"))

\* C14 as claimed: every request whose path is none of the four routes is
\* answered 404 'Route not found.', and GET / is answered 200 with the
\* welcome text.
C14_UnknownPathIs404 ==
  \A w \in Workers :
    Answered(w) =>
      /\ conn[w].r.path \notin Patterns =>
           /\ conn[w].rw.status = StatusNotFound
           /\ conn[w].rw.body = Fixed("Route not found.")
      /\ conn[w].r.method = "GET" /\ conn[w].r.path = Root =>
           /\ conn[w].rw.status = StatusOK
           /\ conn[w].rw.body = Fixed("Welcome to the Go HTTP Server")

\* C14 as amended: every GET request whose path is clean and none of the
\* four routes is answered 404 'Route not found.', and GET / is answered 200
\* with the welcome text; a request of another method for such a path is
\* answered 405 'Method Not Allowed.', homeHandler checking the method before
\* the path; a request whose path is not clean is answered by the mux with a
\* redirect to the clean path and reaches no handler.
C14_UnknownPathOfGetIs404 ==
  \A w \in Workers :
    Answered(w) =>
      LET r == conn[w].r
          rw == conn[w].rw
      IN /\ r.path \notin Patterns /\ CleanPath(r.path) = r.path =>
              IF r.method = "GET"
              THEN rw.status = StatusNotFound /\ rw.body = Fixed("Route not found.")
              ELSE rw.status = StatusMethodNotAllowed /\ rw.body = Fixed("Method Not Allowed.")
         /\ CleanPath(r.path) # r.path =>
              /\ rw.status = StatusMovedPermanently
              /\ <<"Location", CleanPath(r.path)>> \in rw.sent
         /\ r.method = "GET" /\ r.path = Root =>
              /\ rw.status = StatusOK
              /\ rw.body = Fixed("Welcome to the Go HTTP Server")

\* GET /hello/ is no route.
C14_Witness ==
  \E w \in Workers :
    /\ Answered(w)
    /\ conn[w].r.method = "GET" /\ conn[w].r.path = <<"hello", "">>
    /\ conn[w].handler = "homeHandler"
    /\ conn[w].rw.status = StatusNotFound
    /\ conn[w].rw.body = Fixed("Route not found.")

\* C15: a request for one of the four routes with a method other than GET
\* is answered 405 with the body 'Method Not Allowed.' and the header Allow:
\* GET and nothing else is written; no file is read for it at any time.
C15_NonGetIs405 ==
  \A w \in Workers :
    conn[w].r.path \in Patterns /\ conn[w].r.method # "GET" =>
      /\ call[w].fn = "none" /\ call[w].ops = << >>
      /\ conn[w].rw.status \in {0, StatusMethodNotAllowed}
      /\ Answered(w) =>
           /\ conn[w].rw.status = StatusMethodNotAllowed
           /\ conn[w].rw.statusCode = StatusMethodNotAllowed
           /\ conn[w].rw.body = Fixed("Method Not Allowed.")
           /\ <<"Allow", "GET">> \in conn[w].rw.sent

\* POST /read-file?file=s on a readable file
C15_Witness ==
  \E w \in Workers :
    /\ conn[w].pc = "done"
    /\ conn[w].r.method = "POST" /\ conn[w].r.path = <<"read-file">>
    /\ conn[w].r.query = [key |-> "file", value |-> <<"s">>]
    /\ Readable(fs) /\ fs.data # << >>
    /\ conn[w].rw.status = StatusMethodNotAllowed
    /\ <<"Allow", "GET">> \in conn[w].rw.sent
    /\ call[w].pc = "idle"

\* C16: whenever a handler of the program has written a status, with the
\* first WriteHeader call, the three security headers had been set: they are
\* among the headers sent with it, on the paths of 200, 400, 404, 405 and of
\* the 500 after a failed Encode.
C16_SecurityHeadersBeforeStatus ==
  \A w \in Workers :
    conn[w].handler # "RedirectHandler" /\ conn[w].rw.wroteHeader =>
      /\ SecurityHeaders \subseteq conn[w].rw.sent
      /\ conn[w].rw.status \in {StatusOK, StatusBadRequest, StatusNotFound,
                                StatusMethodNotAllowed}

\* The Encode of the health response failed: WriteHeader was called with
\* 200 and then with 500.
C16_Witness ==
  \E w \in Workers :
    /\ Answered(w) /\ conn[w].handler = "healthHandler"
    /\ conn[w].rw.statusCode = StatusInternalServerError
    /\ conn[w].rw.status = StatusOK
    /\ SecurityHeaders \subseteq conn[w].rw.sent

----------------------------------------------------------------------------
(* The commands of main *)

\* The demo has announced the creation of sample.txt and run createTestFiles.
CreationStepDone ==
  /\ prog.arg = "demo-file-reader"
  /\ \E i \in 1..Len(prog.stdout) :
       prog.stdout[i] = Chunk("Creating sample.txt for demonstration...")

\* C20: in a run of demo-file-reader, once the creation step has run
\* sample.txt exists, the ReadFileContent("sample.txt") that follows
\* succeeds, and main returns without the server having been started.
C20_DemoCreatesSampleFile ==
  /\ CreationStepDone =>
       /\ fs.kind # "none"
       /\ call[MainWorker].pc \in {"return", "done"} => ~Failed(MainWorker)
  /\ prog.arg = "demo-file-reader" =>
       /\ prog.pc \notin {"serving", "fatal"}
       /\ \A w \in Workers : conn[w].pc \in {"off", "idle"}

----------------------------------------------------------------------------
(* The log *)

\* The status the client of worker w's request has received: 200 goes out
\* with the first Write when WriteHeader was never called.
StatusSent(w) == IF conn[w].rw.wroteHeader THEN conn[w].rw.status ELSE StatusOK

\* C21: while the handler of a request has not returned and the middleware
\* has not logged, nothing is logged; once the request is done exactly one
\* line has been logged for it, and the status in that line is the status
\* sent to the client, also when the Encode of the health response failed
\* after WriteHeader(200) and handleInternalServerError called
\* WriteHeader(500).
C21_OneLogLineWithStatusSent ==
  \A w \in Workers :
    /\ conn[w].pc \in {"idle", "handler", "read", "log"} => logs = << >>
    /\ conn[w].pc = "done" =>
         /\ Len(logs) = 1
         /\ logs[1].method = conn[w].r.method /\ logs[1].path = conn[w].r.path
         /\ logs[1].status = StatusSent(w)

====
